---- MODULE Spec2Model ----
(***************************************************************************)
(* Look-ahead playback engine of the clawhammer banjo tab generator        *)
(* (playSong / scheduler / scheduleNote / nextNote / stopSong /            *)
(* updateAudioSettings), together with the browser timer queue and the     *)
(* audio clock it runs against.                                            *)
(*                                                                         *)
(* Units: times are integer milliseconds; UI volumes and the metronome     *)
(* pitch multiplier are hundredths (0.5 = 50); engine gains and decay      *)
(* coefficients are thousandths (0.65 = 650).                              *)
(***************************************************************************)
EXTENDS Integers, Sequences, FiniteSets, TLC

VARIABLES
    \* ---- engine globals ------------------------------------------------
    audioCtx,          \* 0 = null, 1 = an open AudioContext
    ctxTime,           \* audioCtx.currentTime (ms); 0 while audioCtx is null
    banjoMasterGain,   \* target gain of the instrument bus, NoNode when null
    metroMasterGain,   \* target gain of the metronome bus, NoNode when null
    isPlaying,
    currentBpm,
    currentMeasures,   \* sequence of measure names (see Grid)
    currentPlayOpts,
    masterOnStop,      \* 0 = no callback, k = the callback given to the k-th playSong
    nextNoteTime,
    currentMeasure,
    currentPos,
    timers,            \* pending setTimeout entries in arming order; the entry
                       \* whose cur flag is set is the one timerID identifies
    \* ---- observation (history) variables ---------------------------------
    session,           \* number of playSong calls so far
    op,                \* what the last step was
    out,               \* scheduleNote calls made by the last step
    cb,                \* callback invocation made by the last step
    cbCount,           \* how often the callback of the last playSong call was invoked
    afterStop,         \* "no": playSong was called since the last stopSong;
                       \* "quick": stopSong directly followed playSong; "yes" otherwise
    succ,              \* the last playSong call directly followed another playSong call
    stops,             \* stopSong calls made in a row, up to 2
    orphanWakes,       \* scheduler wake-ups since the last stopSong, while afterStop # "no"
    early,             \* wall-clock ms still to pass until the first event time of the
                       \* last playSong call plus its timeline's length plus the tail
    passed,            \* (measure, position) pairs given to scheduleNote since the last playSong
    dupPass,           \* some pair was given to scheduleNote twice since the last playSong
    updated,           \* settings of the last updateAudioSettings call of the running session
    applied,           \* arguments of the updateAudioSettings call the last step made, and
                       \* whether the step before it was the same call
    firstTime,         \* the first event time the last playSong call computed
    lastTime,          \* time of the last scheduleNote call since the last playSong, or None
    tempoAtLast,       \* currentBpm when that call was made
    ctxBorn,           \* number of playSong calls made when the open context was created
    plucked,           \* number of pluckString calls since the last playSong
    \* ---- pitch of a (string, fret) pair ------------------------------------
    stringIndex,       \* str of scheduleNote's loop
    fretNumber,        \* fret
    frequency,         \* freq = midiToFreq(OPEN_MIDI[str] + fret), hundredths of a hertz
    \* ---- the one-shot engine of audio.js (with audioCtx, isPlaying, timers) --
    stopFlag,
    activeSrcs,        \* handles of the source nodes of the session: indices into srcNodes
    srcNodes,          \* the source nodes the last playSong created: start time,
                       \* length, and whether stop() has halted the node
    threw,             \* a call into the engine ended with an uncaught error
    caught             \* the last stopSong caught an error of a source's stop()

engineVars == <<audioCtx, ctxTime, banjoMasterGain, metroMasterGain, isPlaying,
                currentBpm, currentMeasures, currentPlayOpts, masterOnStop,
                nextNoteTime, currentMeasure, currentPos, timers>>
obsVars == <<session, op, out, cb, cbCount, afterStop, succ, stops, orphanWakes, early,
             passed, dupPass, updated, applied, firstTime, lastTime, tempoAtLast, ctxBorn,
             plucked>>
pitchVars == <<stringIndex, fretNumber, frequency>>
oneShotVars == <<stopFlag, activeSrcs, srcNodes, threw, caught>>
auxVars == <<pitchVars, oneShotVars>>
vars == <<engineVars, obsVars, auxVars>>

\* The Playback Session of the engine: position pointer, next event time,
\* tempo, mix snapshot, timeline, callback and running flag.
sessionVars == <<isPlaying, currentBpm, currentMeasures, currentPlayOpts,
                 masterOnStop, nextNoteTime, currentMeasure, currentPos>>

-----------------------------------------------------------------------------
(* Program constants *)

SCHEDULE_AHEAD_TIME == 100
LOOKAHEAD == 25
START_LEAD == 100
DRAIN_TAIL == 3500
POSITIONS == 16
STRINGS == 5
DEFAULT_VOLUME == 50
DEFAULT_PITCH == 100
UNITY_GAIN == 1000
ONE_SHOT_LEAD == 50
RENDER_MS == 3000

OPEN_MIDI == <<74, 71, 67, 62, 79>>

(* Bounds of the exploration *)

MaxPlays == 3
MaxOrphanWakes == 2
MaxTempoPlays == 2
MaxLivePlays == 2
MaxFret == 22
MaxOneShotPlays == 2

NoNode == 0 - 1
Undef == 0 - 1
NoOpts == [enabled |-> "undefined", accentDownbeat |-> "undefined",
           banjoVolume |-> Undef, metroVolume |-> Undef, metroPitch |-> Undef]
NoCb == [s |-> 0, by |-> 0]
NoUpdate == [set |-> FALSE, bVol |-> 0, mVol |-> 0, mPitch |-> 0,
             mEnabled |-> FALSE, mAccent |-> FALSE]
NotApplied == [a |-> NoUpdate, again |-> FALSE]
None == 0 - 1

-----------------------------------------------------------------------------
(* Timelines handed to playSong.  A measure is a 5 x 16 grid of cells; a    *)
(* cell is the character sequence of its token.                             *)

Silent == <<"-">>

\* bum-ditty on an open G chord with a hammer-on and one malformed token
GridBum(str, pos) ==
    CASE str = 0 /\ pos = 0  -> <<"0">>
      [] str = 2 /\ pos = 4  -> <<"h", "2">>
      [] str = 0 /\ pos = 6  -> <<"2">>
      [] str = 1 /\ pos = 6  -> <<"1">>
      [] str = 4 /\ pos = 6  -> <<"0">>
      [] str = 3 /\ pos = 8  -> <<"x">>
      [] str = 1 /\ pos = 8  -> <<"1", "0">>
      [] str = 4 /\ pos = 8  -> <<"0">>
      [] str = 4 /\ pos = 14 -> <<"0">>
      [] OTHER -> Silent

\* a single open first string on the downbeat
GridOne(str, pos) ==
    IF str = 0 /\ pos = 0 THEN <<"0">> ELSE Silent

\* notes on the last position of the measure and on the drone
GridEnd(str, pos) ==
    CASE str = 3 /\ pos = 15 -> <<"2">>
      [] str = 4 /\ pos = 12 -> <<"0">>
      [] str = 2 /\ pos = 3  -> <<"3", "p">>
      [] OTHER -> Silent

Grid(name, str, pos) ==
    CASE name = "bum" -> GridBum(str, pos)
      [] name = "one" -> GridOne(str, pos)
      [] name = "end" -> GridEnd(str, pos)

Timelines == { <<>>, <<"one">>, <<"bum", "end">> }

Tempos == {300, 600}

PlayOptsSet ==
    { NoOpts,
      [enabled |-> "true", accentDownbeat |-> "true",
       banjoVolume |-> 50, metroVolume |-> 50, metroPitch |-> 60],
      [enabled |-> "true", accentDownbeat |-> "false",
       banjoVolume |-> 80, metroVolume |-> 80, metroPitch |-> Undef],
      [enabled |-> "false", accentDownbeat |-> "true",
       banjoVolume |-> 50, metroVolume |-> 80, metroPitch |-> 60] }

UpdateArgs ==
    { [set |-> TRUE, bVol |-> 50, mVol |-> 80, mPitch |-> 100,
       mEnabled |-> e, mAccent |-> a] : e \in BOOLEAN, a \in BOOLEAN }

-----------------------------------------------------------------------------
(* Pure helpers *)

Max(a, b) == IF a >= b THEN a ELSE b

Digits == [c \in {"0", "1", "2", "3", "4", "5", "6", "7", "8", "9"} |->
             CASE c = "0" -> 0 [] c = "1" -> 1 [] c = "2" -> 2 [] c = "3" -> 3
               [] c = "4" -> 4 [] c = "5" -> 5 [] c = "6" -> 6 [] c = "7" -> 7
               [] c = "8" -> 8 [] c = "9" -> 9]

NaN == 0 - 1

\* parseInt(cell, 10): the value of the longest prefix of decimal digits,
\* NaN when the token does not start with a digit
RECURSIVE ParseDigits(_, _, _)
ParseDigits(cell, i, acc) ==
    IF i > Len(cell) \/ cell[i] \notin DOMAIN Digits
    THEN acc
    ELSE ParseDigits(cell, i + 1, 10 * acc + Digits[cell[i]])

ParseInt(cell) ==
    IF Len(cell) = 0 \/ cell[1] \notin DOMAIN Digits
    THEN NaN
    ELSE ParseDigits(cell, 1, 0)

\* midiToFreq(note) in hundredths of a hertz: 440 * 2^((note - 69) / 12), the
\* power of two taken as whole octaves times 2^(k/12), k in 0 .. 11, the
\* latter in ten-thousandths
Pow2Twelfths == <<10000, 10595, 11225, 11892, 12599, 13348,
                  14142, 14983, 15874, 16818, 17818, 18877>>

\* variant: the exponent is cut to whole octaves
MidiToFreqWholeOctaves(note) ==
    LET octave == (note - 69) \div 12
    IN  IF octave >= 0 THEN 44000 * 2^octave ELSE 44000 \div 2^(0 - octave)

MidiToFreq(note) ==
    LET octave == (note - 69) \div 12
        k == (note - 69) % 12
        inOctave == (44000 * Pow2Twelfths[k + 1]) \div 10000
    IN  IF octave >= 0 THEN inOctave * 2^octave ELSE inOctave \div 2^(0 - octave)

\* one sixteenth note in ms: 0.25 * (60.0 / bpm) seconds
SixteenthMs(bpm) == (60000 \div bpm) \div 4

-----------------------------------------------------------------------------
(* The engine as functions on a record of its globals.  Cur is the current  *)
(* value of the globals; every operation below maps such a record to the    *)
(* record after the operation, so that operations calling each other        *)
(* (playSong -> stopSong, updateAudioSettings, scheduler) compose.          *)

Cur ==
    [audioCtx |-> audioCtx, ctxTime |-> ctxTime,
     banjoMasterGain |-> banjoMasterGain, metroMasterGain |-> metroMasterGain,
     isPlaying |-> isPlaying, currentBpm |-> currentBpm,
     currentMeasures |-> currentMeasures, currentPlayOpts |-> currentPlayOpts,
     masterOnStop |-> masterOnStop, nextNoteTime |-> nextNoteTime,
     currentMeasure |-> currentMeasure, currentPos |-> currentPos,
     timers |-> timers,
     session |-> session, out |-> <<>>,
     passed |-> passed, dupPass |-> dupPass, ctxBorn |-> ctxBorn,
     firstTime |-> firstTime, plucked |-> plucked]

\* getAudioCtx(): a missing context is created together with its two buses,
\* whose gain is the default of a new GainNode; its clock starts at 0
GetAudioCtx(e) ==
    IF e.audioCtx = 0
    THEN [e EXCEPT !.audioCtx = 1,
                   !.ctxTime = 0,
                   !.banjoMasterGain = UNITY_GAIN,
                   !.metroMasterGain = UNITY_GAIN,
                   !.ctxBorn = e.session]
    ELSE e

\* updateAudioSettings(bVol, mVol, mPitch, mEnabled, mAccent)
EngineBanjoVol(bVol) == (bVol * 650) \div 50
EngineMetroVol(mVol) == (mVol * 1000) \div 50
\* variant: the enabled flag is not consulted
ActualMetroVolIgnoringEnabled(mVol, mEnabled) == EngineMetroVol(mVol)

ActualMetroVol(mVol, mEnabled) == IF mEnabled THEN EngineMetroVol(mVol) ELSE 0

\* variant: a disabled metronome is muted by switching its bus over, an
\* already silent bus back to the metronome volume
UpdateAudioSettingsSwitching(e, bVol, mVol, mPitch, mEnabled, mAccent) ==
    LET e1 == IF e.banjoMasterGain # NoNode
              THEN [GetAudioCtx(e) EXCEPT !.banjoMasterGain = EngineBanjoVol(bVol)]
              ELSE e
    IN  IF e1.metroMasterGain # NoNode
        THEN [GetAudioCtx(e1) EXCEPT !.metroMasterGain =
                    IF mEnabled THEN EngineMetroVol(mVol)
                    ELSE IF @ = 0 THEN EngineMetroVol(mVol) ELSE 0]
        ELSE e1

\* variant: the context is fetched before the buses are looked at
UpdateAudioSettingsEager(e, bVol, mVol, mPitch, mEnabled, mAccent) ==
    [GetAudioCtx(e) EXCEPT !.banjoMasterGain = EngineBanjoVol(bVol),
                           !.metroMasterGain = ActualMetroVol(mVol, mEnabled)]

UpdateAudioSettings(e, bVol, mVol, mPitch, mEnabled, mAccent) ==
    LET e1 == IF e.banjoMasterGain # NoNode
              THEN [GetAudioCtx(e) EXCEPT !.banjoMasterGain = EngineBanjoVol(bVol)]
              ELSE e
    IN  IF e1.metroMasterGain # NoNode
        THEN [GetAudioCtx(e1) EXCEPT !.metroMasterGain = ActualMetroVol(mVol, mEnabled)]
        ELSE e1

\* metronomeClick(ctx, when, isAccent, pitch): the click and the bus it is
\* connected to, with that bus's target gain at the moment of the call
NoClick == [on |-> FALSE, accent |-> FALSE, freq |-> 0, peak |-> 0, bus |-> 0]

MetronomeClick(e, isAccent, pitch) ==
    [on |-> TRUE, accent |-> isAccent,
     freq |-> (IF isAccent THEN 500 ELSE 800) * pitch,
     peak |-> IF isAccent THEN 800 ELSE 500,
     bus |-> e.metroMasterGain]

ClickEnabled(opts) == opts.enabled = "true"
AccentDownbeat(opts) == opts.accentDownbeat # "false"
MetroPitch(opts) == IF opts.metroPitch # Undef THEN opts.metroPitch ELSE DEFAULT_PITCH
BanjoVolume(opts) == IF opts.banjoVolume # Undef THEN opts.banjoVolume ELSE DEFAULT_VOLUME
MetroVolume(opts) == IF opts.metroVolume # Undef THEN opts.metroVolume ELSE DEFAULT_VOLUME

\* variant: a token that does not parse counts as the open string
FretOrOpen(cell) ==
    IF cell = Silent THEN NaN
    ELSE IF cell = <<"h", "2">> THEN 2
    ELSE IF ParseInt(cell) = NaN THEN 0 ELSE ParseInt(cell)

\* variant: only '-' and digits are looked at
FretWithoutHammerOn(cell) ==
    IF cell = Silent THEN NaN ELSE ParseInt(cell)

\* the fret a cell resolves to, NaN when the cell makes no sound
Fret(cell) ==
    IF cell = Silent THEN NaN
    ELSE IF cell = <<"h", "2">> THEN 2
    ELSE ParseInt(cell)

\* the pluckString calls of one column of a measure
Plucks(measure, pos, time) ==
    { [str |-> str,
       note |-> OPEN_MIDI[str + 1] + Fret(Grid(measure, str, pos)),
       freq |-> MidiToFreq(OPEN_MIDI[str + 1] + Fret(Grid(measure, str, pos))),
       gain |-> IF str = 4 THEN 350 ELSE 450,
       decay |-> IF str = 4 THEN 991 ELSE 994,
       when |-> time]
      : str \in { s \in 0 .. STRINGS - 1 : Fret(Grid(measure, s, pos)) # NaN } }

\* variant: clicks on every eighth note, accented on every beat
ScheduleNoteEighths(e, measureIdx, pos, time) ==
    LET c == GetAudioCtx(e)
        opts == c.currentPlayOpts
        click == IF pos % 2 = 0 /\ ClickEnabled(opts)
                 THEN MetronomeClick(c, AccentDownbeat(opts), MetroPitch(opts))
                 ELSE NoClick
        plucks == IF measureIdx >= Len(c.currentMeasures)
                  THEN {}
                  ELSE Plucks(c.currentMeasures[measureIdx + 1], pos, time)
        key == measureIdx * POSITIONS + pos
    IN  [c EXCEPT !.out = Append(@, [m |-> measureIdx, pos |-> pos, time |-> time,
                                     click |-> click,
                                     plucks |-> plucks]),
                  !.dupPass = @ \/ key \in c.passed,
                  !.passed = @ \cup {key},
                  !.plucked = @ + Cardinality(plucks)]

\* scheduleNote(measureIdx, pos, time): what it hands to the synthesizers
ScheduleNote(e, measureIdx, pos, time) ==
    LET c == GetAudioCtx(e)
        opts == c.currentPlayOpts
        click == IF pos % 4 = 0 /\ ClickEnabled(opts)
                 THEN MetronomeClick(c, AccentDownbeat(opts) /\ (pos \div 4) = 0,
                                     MetroPitch(opts))
                 ELSE NoClick
        plucks == IF measureIdx >= Len(c.currentMeasures)
                  THEN {}
                  ELSE Plucks(c.currentMeasures[measureIdx + 1], pos, time)
        key == measureIdx * POSITIONS + pos
    IN  [c EXCEPT !.out = Append(@, [m |-> measureIdx, pos |-> pos, time |-> time,
                                     click |-> click,
                                     plucks |-> plucks]),
                  !.dupPass = @ \/ key \in c.passed,
                  !.passed = @ \cup {key},
                  !.plucked = @ + Cardinality(plucks)]

\* variant: the time is advanced once more when the measure wraps
NextNoteBarGap(e) ==
    LET pos == e.currentPos + 1
        step == SixteenthMs(e.currentBpm)
    IN  [e EXCEPT !.nextNoteTime = IF pos = POSITIONS THEN @ + 2 * step ELSE @ + step,
                  !.currentPos = IF pos = POSITIONS THEN 0 ELSE pos,
                  !.currentMeasure = IF pos = POSITIONS THEN @ + 1 ELSE @]

\* variant: the next time is laid out again from the first event time at the
\* current tempo
NextNoteFromStart(e) ==
    LET pos == e.currentPos + 1
    IN  [e EXCEPT !.nextNoteTime = e.firstTime
                        + (e.currentMeasure * POSITIONS + pos) * SixteenthMs(e.currentBpm),
                  !.currentPos = IF pos = POSITIONS THEN 0 ELSE pos,
                  !.currentMeasure = IF pos = POSITIONS THEN @ + 1 ELSE @]

\* nextNote()
NextNote(e) ==
    LET pos == e.currentPos + 1
    IN  [e EXCEPT !.nextNoteTime = @ + SixteenthMs(e.currentBpm),
                  !.currentPos = IF pos = POSITIONS THEN 0 ELSE pos,
                  !.currentMeasure = IF pos = POSITIONS THEN @ + 1 ELSE @]

\* timerID = setTimeout(scheduler, LOOKAHEAD): the new entry becomes the one
\* timerID identifies
ArmScheduler(e, owner) ==
    [e EXCEPT !.timers =
        Append([i \in DOMAIN @ |-> [@[i] EXCEPT !.cur = FALSE]],
               [kind |-> "sched", rem |-> LOOKAHEAD, cur |-> TRUE, owner |-> owner])]

\* setTimeout(() => { if (isPlaying) ... }, remainingTime): the handle is dropped
ArmDrain(e) ==
    [e EXCEPT !.timers =
        Append(@, [kind |-> "drain",
                   rem |-> Max(0, (e.nextNoteTime - e.ctxTime) + DRAIN_TAIL),
                   cur |-> FALSE, owner |-> e.session])]

\* variant: the loop also takes the event that lies exactly on the edge of
\* the window
RECURSIVE SchedulerLoopInclusive(_, _)
SchedulerLoopInclusive(e, owner) ==
    IF e.nextNoteTime <= e.ctxTime + SCHEDULE_AHEAD_TIME
    THEN IF e.currentMeasure >= Len(e.currentMeasures)
         THEN ArmDrain(e)
         ELSE SchedulerLoopInclusive(
                NextNote(ScheduleNote(e, e.currentMeasure, e.currentPos, e.nextNoteTime)),
                owner)
    ELSE ArmScheduler(e, owner)

\* variant: the timeline counts as exhausted one measure late
RECURSIVE SchedulerLoopOneMore(_, _)
SchedulerLoopOneMore(e, owner) ==
    IF e.nextNoteTime < e.ctxTime + SCHEDULE_AHEAD_TIME
    THEN IF e.currentMeasure > Len(e.currentMeasures)
         THEN ArmDrain(e)
         ELSE SchedulerLoopOneMore(
                NextNote(ScheduleNote(e, e.currentMeasure, e.currentPos, e.nextNoteTime)),
                owner)
    ELSE ArmScheduler(e, owner)

\* the while loop of scheduler() and what follows it
RECURSIVE SchedulerLoop(_, _)
SchedulerLoop(e, owner) ==
    IF e.nextNoteTime < e.ctxTime + SCHEDULE_AHEAD_TIME
    THEN IF e.currentMeasure >= Len(e.currentMeasures)
         THEN ArmDrain(e)
         ELSE SchedulerLoop(
                NextNote(ScheduleNote(e, e.currentMeasure, e.currentPos, e.nextNoteTime)),
                owner)
    ELSE ArmScheduler(e, owner)

\* scheduler()
Scheduler(e, owner) == SchedulerLoop(GetAudioCtx(e), owner)

\* clearTimeout(timerID)
ClearTimer(tms) == SelectSeq(tms, LAMBDA t : ~t.cur)

\* variant: stopSong also rewinds the position pointer
StopSongRewinding(e) ==
    LET e1 == [e EXCEPT !.isPlaying = FALSE, !.timers = ClearTimer(@),
                        !.currentMeasure = 0, !.currentPos = 0]
    IN  IF e1.audioCtx # 0
        THEN [e1 EXCEPT !.audioCtx = 0, !.ctxTime = 0,
                        !.banjoMasterGain = NoNode, !.metroMasterGain = NoNode,
                        !.ctxBorn = 0]
        ELSE e1

\* a write to the engine's current tempo (the updateTempo(bpm) the tempo
\* slider calls when the engine provides it)
UpdateTempo(e, bpm) == [e EXCEPT !.currentBpm = bpm]

\* stopSong()
StopSong(e) ==
    LET e1 == [e EXCEPT !.isPlaying = FALSE, !.timers = ClearTimer(@)]
    IN  IF e1.audioCtx # 0
        THEN [e1 EXCEPT !.audioCtx = 0, !.ctxTime = 0,
                        !.banjoMasterGain = NoNode, !.metroMasterGain = NoNode,
                        !.ctxBorn = 0]
        ELSE e1

\* variant: a running session is not stopped first
PlaySongWithoutStop(e, allMeasures, bpm, onStop, playOpts) ==
    LET e2 == GetAudioCtx(e)
        e3 == [e2 EXCEPT !.isPlaying = TRUE,
                         !.currentBpm = bpm,
                         !.currentMeasures = allMeasures,
                         !.currentPlayOpts = playOpts,
                         !.masterOnStop = onStop,
                         !.currentMeasure = 0,
                         !.currentPos = 0,
                         !.nextNoteTime = e2.ctxTime + START_LEAD]
        e4 == UpdateAudioSettings(e3, BanjoVolume(playOpts), MetroVolume(playOpts),
                                  MetroPitch(playOpts), ClickEnabled(playOpts),
                                  AccentDownbeat(playOpts))
    IN  Scheduler(e4, e4.session)

\* playSong(allMeasures, bpm, onStop, playOpts); onStop is 0 when no callback
\* is given, otherwise the number of this call
PlaySong(e, allMeasures, bpm, onStop, playOpts) ==
    LET e1 == IF e.isPlaying THEN StopSong(e) ELSE e
        e2 == GetAudioCtx(e1)
        e3 == [e2 EXCEPT !.isPlaying = TRUE,
                         !.currentBpm = bpm,
                         !.currentMeasures = allMeasures,
                         !.currentPlayOpts = playOpts,
                         !.masterOnStop = onStop,
                         !.currentMeasure = 0,
                         !.currentPos = 0,
                         !.nextNoteTime = e2.ctxTime + START_LEAD]
        e4 == UpdateAudioSettings(e3, BanjoVolume(playOpts), MetroVolume(playOpts),
                                  MetroPitch(playOpts), ClickEnabled(playOpts),
                                  AccentDownbeat(playOpts))
    IN  Scheduler(e4, e4.session)

\* the natural-end timeout: () => { if (isPlaying) { isPlaying = false; if (masterOnStop) masterOnStop(); } }
DrainFires(e) ==
    IF e.isPlaying THEN [e EXCEPT !.isPlaying = FALSE] ELSE e

DrainCallback(e, owner) ==
    IF e.isPlaying /\ e.masterOnStop # 0
    THEN [s |-> e.masterOnStop, by |-> owner]
    ELSE NoCb

-----------------------------------------------------------------------------
(* The state machine *)

\* the last scheduleNote call and the tempo it was made at
Schedules(e) ==
    /\ lastTime' = IF e.out # <<>> THEN e.out[Len(e.out)].time ELSE lastTime
    /\ tempoAtLast' = IF e.out # <<>> THEN e.currentBpm ELSE tempoAtLast

Commit(e) ==
    /\ audioCtx' = e.audioCtx
    /\ ctxTime' = e.ctxTime
    /\ banjoMasterGain' = e.banjoMasterGain
    /\ metroMasterGain' = e.metroMasterGain
    /\ isPlaying' = e.isPlaying
    /\ currentBpm' = e.currentBpm
    /\ currentMeasures' = e.currentMeasures
    /\ currentPlayOpts' = e.currentPlayOpts
    /\ masterOnStop' = e.masterOnStop
    /\ nextNoteTime' = e.nextNoteTime
    /\ currentMeasure' = e.currentMeasure
    /\ currentPos' = e.currentPos
    /\ timers' = e.timers
    /\ session' = e.session
    /\ out' = e.out
    /\ passed' = e.passed
    /\ dupPass' = e.dupPass
    /\ ctxBorn' = e.ctxBorn
    /\ plucked' = e.plucked

EngineInit ==
    /\ audioCtx = 0
    /\ ctxTime = 0
    /\ banjoMasterGain = NoNode
    /\ metroMasterGain = NoNode
    /\ isPlaying = FALSE
    /\ currentBpm = 90
    /\ currentMeasures = <<>>
    /\ currentPlayOpts = NoOpts
    /\ masterOnStop = 0
    /\ nextNoteTime = 0
    /\ currentMeasure = 0
    /\ currentPos = 0
    /\ timers = <<>>
    /\ session = 0
    /\ op = "init"
    /\ out = <<>>
    /\ cb = NoCb
    /\ cbCount = 0
    /\ afterStop = "no"
    /\ succ = FALSE
    /\ stops = 0
    /\ orphanWakes = 0
    /\ early = 0
    /\ passed = {}
    /\ dupPass = FALSE
    /\ updated = NoUpdate
    /\ applied = NotApplied
    /\ firstTime = 0
    /\ lastTime = None
    /\ tempoAtLast = 0
    /\ ctxBorn = 0
    /\ plucked = 0

\* midiNote = OPEN_MIDI[str] + fret; freq = midiToFreq(midiNote)
PitchToFrequency(str, fret) == MidiToFreq(OPEN_MIDI[str + 1] + fret)

PitchInit ==
    /\ stringIndex = 0
    /\ fretNumber = 0
    /\ frequency = PitchToFrequency(0, 0)

OneShotInit ==
    /\ stopFlag = FALSE
    /\ activeSrcs = <<>>
    /\ srcNodes = <<>>
    /\ threw = FALSE
    /\ caught = FALSE

Init == EngineInit /\ PitchInit /\ OneShotInit

\* N x 16 sixteenth notes at the tempo, plus the tail
NaturalLength(allMeasures, bpm) ==
    Len(allMeasures) * POSITIONS * SixteenthMs(bpm) + DRAIN_TAIL

\* The callers explored make their calls while the position pointer stands
\* on one of these positions (any time before the first call, at the start
\* or the middle of a measure afterwards).
CallPositions == {0, 8}
AtCallPoint == currentPos \in CallPositions

\* a caller invokes playSong
CallPlaySong ==
    /\ session < MaxPlays
    /\ AtCallPoint
    /\ \E allMeasures \in Timelines, bpm \in Tempos, playOpts \in PlayOptsSet :
         /\ Commit(PlaySong([Cur EXCEPT !.session = session + 1,
                                        !.passed = {}, !.dupPass = FALSE,
                                        !.plucked = 0],
                            allMeasures, bpm, session + 1, playOpts))
         /\ early' = START_LEAD + NaturalLength(allMeasures, bpm)
    /\ firstTime' = nextNoteTime'
    /\ lastTime' = IF out' # <<>> THEN out'[Len(out')].time ELSE None
    /\ tempoAtLast' = IF out' # <<>> THEN currentBpm' ELSE 0
    /\ applied' = NotApplied
    /\ op' = "play"
    /\ cb' = NoCb
    /\ cbCount' = 0
    /\ afterStop' = "no"
    /\ succ' = (op = "play")
    /\ stops' = 0
    /\ orphanWakes' = 0
    /\ updated' = NoUpdate
    /\ UNCHANGED auxVars

\* a caller invokes stopSong
CallStopSong ==
    /\ AtCallPoint
    /\ Commit(StopSong(Cur))
    /\ op' = "stop"
    /\ cb' = NoCb
    /\ afterStop' = IF op = "play" THEN "quick" ELSE IF afterStop = "quick" THEN "quick" ELSE "yes"
    /\ orphanWakes' = 0
    /\ stops' = IF stops = 0 THEN 1 ELSE 2
    /\ updated' = NoUpdate
    /\ applied' = NotApplied
    /\ UNCHANGED <<cbCount, succ, early, firstTime, lastTime, tempoAtLast, auxVars>>

\* a caller invokes updateAudioSettings
CallUpdateAudioSettings ==
    /\ AtCallPoint
    /\ \E a \in UpdateArgs :
         /\ Commit(UpdateAudioSettings(Cur, a.bVol, a.mVol, a.mPitch, a.mEnabled, a.mAccent))
         /\ updated' = IF isPlaying THEN a ELSE NoUpdate
         /\ applied' = [a |-> a, again |-> (applied.a = a)]
    /\ op' = "update"
    /\ cb' = NoCb
    /\ stops' = 0
    /\ UNCHANGED <<cbCount, afterStop, succ, orphanWakes, early, firstTime, lastTime,
                   tempoAtLast, auxVars>>

\* the timers that are due run in the order they were armed
Due == { i \in DOMAIN timers : timers[i].rem = 0 }
FirstDue == CHOOSE i \in Due : \A j \in Due : i <= j
Without(tms, i) == [j \in 1 .. Len(tms) - 1 |-> IF j < i THEN tms[j] ELSE tms[j + 1]]

\* the event loop runs a due scheduler wake-up
SchedulerWakes ==
    /\ Due # {}
    /\ timers[FirstDue].kind = "sched"
    /\ afterStop = "no" \/ orphanWakes < MaxOrphanWakes
    /\ orphanWakes' = IF afterStop = "no" THEN 0 ELSE orphanWakes + 1
    /\ LET e == Scheduler([Cur EXCEPT !.timers = Without(timers, FirstDue)],
                          timers[FirstDue].owner)
       IN  Commit(e) /\ Schedules(e)
    /\ applied' = NotApplied
    /\ op' = "sched"
    /\ cb' = NoCb
    /\ stops' = 0
    /\ UNCHANGED <<cbCount, afterStop, succ, early, updated, firstTime, auxVars>>

\* the event loop runs a due natural-end timeout
DrainTimeout ==
    /\ Due # {}
    /\ timers[FirstDue].kind = "drain"
    /\ LET e == [Cur EXCEPT !.timers = Without(timers, FirstDue)]
           c == DrainCallback(e, timers[FirstDue].owner)
       IN  /\ Commit(DrainFires(e))
           /\ cb' = c
           /\ cbCount' = IF c.s # 0 THEN cbCount + 1 ELSE cbCount
           /\ updated' = IF isPlaying THEN NoUpdate ELSE updated
    /\ op' = "drain"
    /\ stops' = 0
    /\ applied' = NotApplied
    /\ UNCHANGED <<afterStop, succ, orphanWakes, early, firstTime, lastTime, tempoAtLast,
                   auxVars>>

\* time passes until the next timer is due; the audio clock of an open
\* context advances with it
NextDue == CHOOSE d \in { timers[i].rem : i \in DOMAIN timers } :
               \A i \in DOMAIN timers : d <= timers[i].rem

Tick ==
    /\ timers # <<>>
    /\ NextDue > 0
    /\ timers' = [i \in DOMAIN timers |-> [timers[i] EXCEPT !.rem = @ - NextDue]]
    /\ ctxTime' = IF audioCtx # 0 THEN ctxTime + NextDue ELSE ctxTime
    /\ early' = Max(0, early - NextDue)
    /\ stops' = 0
    /\ op' = "tick"
    /\ out' = <<>>
    /\ cb' = NoCb
    /\ applied' = NotApplied
    /\ UNCHANGED <<firstTime, lastTime, tempoAtLast, ctxBorn, plucked, auxVars>>
    /\ UNCHANGED <<audioCtx, banjoMasterGain, metroMasterGain, isPlaying, currentBpm,
                   currentMeasures, currentPlayOpts, masterOnStop, nextNoteTime,
                   currentMeasure, currentPos, session, cbCount, afterStop, succ, orphanWakes,
                   passed, dupPass, updated>>

\* a caller writes the tempo of the running session
CallUpdateTempo ==
    /\ isPlaying
    /\ AtCallPoint
    /\ \E bpm \in Tempos \ {currentBpm} : Commit(UpdateTempo(Cur, bpm))
    /\ op' = "tempo"
    /\ cb' = NoCb
    /\ stops' = 0
    /\ applied' = NotApplied
    /\ UNCHANGED <<cbCount, afterStop, succ, orphanWakes, early, updated, firstTime,
                   lastTime, tempoAtLast, auxVars>>

Next ==
    \/ CallPlaySong
    \/ CallStopSong
    \/ CallUpdateAudioSettings
    \/ SchedulerWakes
    \/ DrainTimeout
    \/ Tick

Spec == Init /\ [][Next]_vars

\* the engine with a caller that also writes the tempo while it is running
CallPlaySongFew == session < MaxTempoPlays /\ CallPlaySong

NextTempo ==
    \/ CallPlaySongFew
    \/ CallStopSong
    \/ CallUpdateAudioSettings
    \/ SchedulerWakes
    \/ DrainTimeout
    \/ Tick
    \/ CallUpdateTempo

SpecTempo == Init /\ [][NextTempo]_vars

\* the engine in a browser whose event loop runs every timeout that is due
\* and whose audio clock keeps advancing; the caller stays free to call or
\* not, and passes no options
CallPlaySongLive ==
    /\ session < MaxLivePlays
    /\ CallPlaySong
    /\ currentPlayOpts' = NoOpts

NextLive ==
    \/ CallPlaySongLive
    \/ CallStopSong
    \/ SchedulerWakes
    \/ DrainTimeout
    \/ Tick

SpecLive ==
    /\ Init /\ [][NextLive]_vars
    /\ WF_vars(SchedulerWakes) /\ WF_vars(DrainTimeout) /\ WF_vars(Tick)

-----------------------------------------------------------------------------
(* The pitch of every string at every fret: scheduleNote's                   *)
(* midiToFreq(OPEN_MIDI[str] + fret) for one string, fret after fret.        *)

InitPitch ==
    /\ EngineInit
    /\ OneShotInit
    /\ stringIndex \in 0 .. STRINGS - 1
    /\ fretNumber = 0
    /\ frequency = PitchToFrequency(stringIndex, 0)

RaiseFret ==
    /\ fretNumber < MaxFret
    /\ fretNumber' = fretNumber + 1
    /\ frequency' = PitchToFrequency(stringIndex, fretNumber + 1)
    /\ UNCHANGED <<stringIndex, engineVars, obsVars, oneShotVars>>

NextPitch == RaiseFret

SpecPitch == InitPitch /\ [][NextPitch]_vars

-----------------------------------------------------------------------------
(* The one-shot engine of audio.js: playSong creates every source node of    *)
(* the song at once and arms one timeout for its end; stopSong halts the     *)
(* nodes one by one.                                                         *)

OneShotCur ==
    [audioCtx |-> audioCtx, ctxTime |-> ctxTime, isPlaying |-> isPlaying,
     stopFlag |-> stopFlag, activeSrcs |-> activeSrcs, srcNodes |-> srcNodes,
     timers |-> timers, threw |-> FALSE, caught |-> FALSE, session |-> session]

\* getAudioCtx() of audio.js
OneShotGetAudioCtx(o) ==
    IF o.audioCtx = 0 THEN [o EXCEPT !.audioCtx = 1, !.ctxTime = 0] ELSE o

\* length in ms of the buffer pluckString renders: dur seconds plus two
\* periods of the tone
PluckMs(freq) == RENDER_MS + 200000 \div freq

\* the source nodes pluckString returns, in the order of the loops over
\* measures, positions and strings
OneShotNodes(allMeasures, sixteenth, startTime) ==
    LET cells == [k \in 1 .. Len(allMeasures) * POSITIONS * STRINGS |->
                    LET m == (k - 1) \div (POSITIONS * STRINGS)
                        pos == ((k - 1) % (POSITIONS * STRINGS)) \div STRINGS
                        str == (k - 1) % STRINGS
                    IN  [m |-> m, pos |-> pos, str |-> str,
                         fret |-> Fret(Grid(allMeasures[m + 1], str, pos))]]
        sounding == SelectSeq(cells, LAMBDA c : c.fret # NaN)
    IN  [i \in DOMAIN sounding |->
            LET c == sounding[i]
                measureStart == startTime + c.m * POSITIONS * sixteenth
            IN  [when |-> measureStart + c.pos * sixteenth,
                 len |-> PluckMs(MidiToFreq(OPEN_MIDI[c.str + 1] + c.fret)),
                 stopped |-> FALSE]]

\* the node has played to its end
Finished(node, now) == now >= node.when + node.len

Handles(o) == { o.activeSrcs[i] : i \in DOMAIN o.activeSrcs }

\* the nodes whose stop() may fail: those that have finished by themselves
MayFail(o) == { h \in Handles(o) : Finished(o.srcNodes[h], o.ctxTime) }

\* the outcomes explored: no stop() fails, every one that may does, or one does
FailChoices(o) == { {}, MayFail(o) } \cup { {h} : h \in MayFail(o) }

\* variant: stop() is called without try/catch; the first failing call ends
\* stopSong
OneShotStopSongUncaught(o, fails) ==
    LET failing == Handles(o) \cap fails
        first == CHOOSE f \in failing : \A g \in failing : f <= g
    IN  IF failing = {}
        THEN [o EXCEPT !.stopFlag = TRUE,
                       !.timers = ClearTimer(@),
                       !.srcNodes = [i \in DOMAIN @ |->
                                       IF i \in Handles(o)
                                       THEN [@[i] EXCEPT !.stopped = TRUE] ELSE @[i]],
                       !.activeSrcs = <<>>,
                       !.isPlaying = FALSE]
        ELSE [o EXCEPT !.stopFlag = TRUE,
                       !.timers = ClearTimer(@),
                       !.srcNodes = [i \in DOMAIN @ |->
                                       IF i \in Handles(o) /\ i < first
                                       THEN [@[i] EXCEPT !.stopped = TRUE] ELSE @[i]],
                       !.threw = TRUE]

\* stopSong() of audio.js; fails are the nodes whose stop() throws
OneShotStopSong(o, fails) ==
    [o EXCEPT !.stopFlag = TRUE,
              !.timers = ClearTimer(@),
              !.srcNodes = [i \in DOMAIN @ |->
                              IF i \in Handles(o) \ fails
                              THEN [@[i] EXCEPT !.stopped = TRUE] ELSE @[i]],
              !.caught = (Handles(o) \cap fails # {}),
              !.activeSrcs = <<>>,
              !.isPlaying = FALSE]

\* playSong(allMeasures, bpm, onStop) of audio.js
OneShotPlaySong(o, allMeasures, bpm, onStop, fails) ==
    LET o1 == IF o.isPlaying THEN OneShotStopSong(o, fails) ELSE o
        o2 == OneShotGetAudioCtx(o1)
        sixteenth == SixteenthMs(bpm)
        startTime == o2.ctxTime + ONE_SHOT_LEAD
        nodes == OneShotNodes(allMeasures, sixteenth, startTime)
        totalDuration == Len(allMeasures) * POSITIONS * sixteenth + DRAIN_TAIL
        msUntilEnd == (startTime + totalDuration) - o2.ctxTime
    IN  IF o1.threw
        THEN o1
        ELSE [o2 EXCEPT !.isPlaying = TRUE,
                        !.stopFlag = FALSE,
                        !.srcNodes = nodes,
                        !.activeSrcs = [i \in 1 .. Len(nodes) |-> i],
                        !.timers = Append([i \in DOMAIN @ |-> [@[i] EXCEPT !.cur = FALSE]],
                                          [kind |-> "end", rem |-> msUntilEnd, cur |-> TRUE,
                                           owner |-> onStop])]

\* the timeout of playSong: () => { isPlaying = false; activeSrcs = []; if (onStop) onStop(); }
OneShotEnd(o) == [o EXCEPT !.isPlaying = FALSE, !.activeSrcs = <<>>]

OneShotCommit(o) ==
    /\ audioCtx' = o.audioCtx
    /\ ctxTime' = o.ctxTime
    /\ isPlaying' = o.isPlaying
    /\ stopFlag' = o.stopFlag
    /\ activeSrcs' = o.activeSrcs
    /\ srcNodes' = o.srcNodes
    /\ timers' = o.timers
    /\ threw' = o.threw
    /\ caught' = o.caught
    /\ session' = o.session
    /\ UNCHANGED <<banjoMasterGain, metroMasterGain, currentBpm, currentMeasures,
                   currentPlayOpts, masterOnStop, nextNoteTime, currentMeasure, currentPos,
                   out, afterStop, succ, stops, orphanWakes, early, passed, dupPass,
                   updated, applied, firstTime, lastTime, tempoAtLast, ctxBorn, plucked,
                   pitchVars>>

\* a caller invokes playSong
CallOneShotPlaySong ==
    /\ session < MaxOneShotPlays
    /\ \E allMeasures \in Timelines, bpm \in Tempos,
          fails \in (IF isPlaying THEN FailChoices(OneShotCur) ELSE {{}}) :
         OneShotCommit(OneShotPlaySong([OneShotCur EXCEPT !.session = session + 1],
                                       allMeasures, bpm, session + 1, fails))
    /\ op' = "play"
    /\ cb' = NoCb
    /\ cbCount' = 0

\* a caller invokes stopSong
CallOneShotStopSong ==
    /\ \E fails \in FailChoices(OneShotCur) :
         OneShotCommit(OneShotStopSong(OneShotCur, fails))
    /\ op' = "stop"
    /\ cb' = NoCb
    /\ UNCHANGED cbCount

\* the event loop runs the due timeout of playSong
OneShotTimeout ==
    /\ Due # {}
    /\ timers[FirstDue].kind = "end"
    /\ OneShotCommit(OneShotEnd([OneShotCur EXCEPT !.timers = Without(timers, FirstDue)]))
    /\ op' = "end"
    /\ cb' = IF timers[FirstDue].owner # 0
             THEN [s |-> timers[FirstDue].owner, by |-> timers[FirstDue].owner]
             ELSE NoCb
    /\ cbCount' = IF timers[FirstDue].owner # 0 THEN cbCount + 1 ELSE cbCount

\* time passes until the timeout is due or the next node that was not halted
\* has played to its end
Instants ==
    { timers[i].rem : i \in DOMAIN timers }
      \cup { srcNodes[i].when + srcNodes[i].len - ctxTime :
                i \in { j \in DOMAIN srcNodes : ~srcNodes[j].stopped } }

OneShotTick ==
    /\ audioCtx # 0
    /\ \A i \in DOMAIN timers : timers[i].rem > 0
    /\ \E d \in Instants :
         /\ d > 0
         /\ \A other \in Instants : other > 0 => d <= other
         /\ OneShotCommit([OneShotCur EXCEPT
                              !.ctxTime = @ + d,
                              !.threw = threw,
                              !.caught = caught,
                              !.timers = [i \in DOMAIN @ |-> [@[i] EXCEPT !.rem = @ - d]]])
    /\ op' = "tick"
    /\ cb' = NoCb
    /\ UNCHANGED cbCount

NextOneShot ==
    \/ CallOneShotPlaySong
    \/ CallOneShotStopSong
    \/ OneShotTimeout
    \/ OneShotTick

SpecOneShot == Init /\ [][NextOneShot]_vars

-----------------------------------------------------------------------------
(* Properties *)

Events == { out[i] : i \in DOMAIN out }
PendingOf(k) == { i \in DOMAIN timers : timers[i].owner = k }

\* C1: a completion callback is invoked at most once, and only by the natural
\* end of the session it was given to: never by the natural-end timeout of an
\* earlier session that was ended by stopSong or superseded by playSong.
C1_CallbackOnlyByOwnNaturalEnd ==
    cb.s # 0 => (cb.by = cb.s /\ cbCount <= 1)

\* C2: the callback of a playSong call with N measures at tempo T is not invoked
\* earlier than N x 16 sixteenth notes plus the 3.5 s tail after that call's
\* first event time, whatever calls and timer firings came before.
C2_NaturalEndNotEarly ==
    cb.s # 0 => early = 0

\* C3: after stopSong has returned and until the next playSong, no scheduler
\* wake-up runs and no position is handed to the synthesizers.
C3_SilentAfterStop ==
    afterStop # "no" => (op # "sched" /\ out = <<>>)

\* C4: when stopSong directly follows playSong, no string or click synthesizer
\* call is ever made for that session.
C4_QuickStopEmitsNothing ==
    afterStop = "quick" => \A ev \in Events : ev.plucks = {} /\ ~ev.click.on

\* C5: when playSong directly follows playSong, the second call supersedes the
\* first: the engine is running the second call's session from measure 0,
\* position 0, the wake-up armed by the first call is gone, exactly one wake-up
\* of the second call is pending and it is the one timerID identifies; and in
\* no session is a (measure, position) pair handed to scheduleNote twice.
C5_SecondStartSupersedes ==
    /\ ~dupPass
    /\ (succ /\ op = "play") =>
          /\ isPlaying
          /\ currentMeasure = 0 /\ currentPos = 0
          /\ masterOnStop = session
          /\ PendingOf(session - 1) = {}
          /\ Cardinality(PendingOf(session)) = 1
          /\ \A i \in PendingOf(session) : timers[i].kind = "sched" /\ timers[i].cur

C5_Witness ==
    succ /\ op = "sched" /\ isPlaying /\ Len(out) > 0 /\ currentPos = 3

\* C6: playSong with an empty timeline is a no-op: the engine is not running,
\* the call leaves no timer pending and its callback is never invoked.
C6_EmptyTimelineIsNoOp ==
    (session > 0 /\ Len(currentMeasures) = 0) =>
        (~isPlaying /\ PendingOf(session) = {} /\ cbCount = 0)

\* C7: with the metronome enabled, scheduleNote emits a click exactly on
\* positions 0, 4, 8 and 12 of the measure; the click is accented only on
\* position 0 and only with the accent-downbeat flag set.
C7_TicksOnQuarters ==
    \A ev \in Events :
        /\ currentPlayOpts.enabled = "true" => (ev.click.on <=> ev.pos \in {0, 4, 8, 12})
        /\ ev.click.on => ev.pos \in {0, 4, 8, 12}
        /\ ev.click.accent => (ev.pos = 0 /\ currentPlayOpts.accentDownbeat = "true")
        /\ (ev.click.on /\ ev.pos = 0 /\ currentPlayOpts.accentDownbeat = "true")
              => ev.click.accent

C7_Witness ==
    \E ev \in Events : ev.m = 1 /\ ev.pos = 12 /\ ev.click.on /\ ~ev.click.accent
                       /\ currentPlayOpts.accentDownbeat = "true"

\* C8: once updateAudioSettings was called with the metronome disabled during a
\* running session, every click scheduled afterwards goes to a metronome bus
\* whose target gain is 0; the call changes nothing the scheduler reads to
\* place the string sounds (pointer, next event time, tempo, timeline, timers,
\* audio clock), and the plucks of every position are those of its column.
C8_DisabledMetronomeIsSilent ==
    /\ [](updated.set /\ ~updated.mEnabled =>
            \A ev \in Events :
                /\ ev.click.on => ev.click.bus = 0
                /\ ev.plucks = Plucks(currentMeasures[ev.m + 1], ev.pos, ev.time))
    /\ [][op' = "update" =>
            UNCHANGED <<sessionVars, timers, audioCtx, ctxTime>>]_vars

C8_Witness ==
    /\ updated.set /\ ~updated.mEnabled
    /\ \E ev \in Events : ev.click.on /\ ev.click.bus = 0 /\ ev.plucks # {}

\* C9: after updateAudioSettings was called during a running session, every
\* position scheduled afterwards takes the metronome-enabled flag, the accent
\* flag and the pitch multiplier from that call.
C9_SettingsApplyLive ==
    updated.set =>
        \A ev \in Events :
            /\ ev.click.on <=> (updated.mEnabled /\ ev.pos % 4 = 0)
            /\ ev.click.on =>
                  /\ ev.click.accent <=> (updated.mAccent /\ ev.pos = 0)
                  /\ ev.click.freq = (IF ev.click.accent THEN 500 ELSE 800) * updated.mPitch

\* C10: a stopSong call that directly follows a stopSong call changes nothing,
\* and a stopSong call made while the engine is not running changes nothing
\* of the playback session and invokes no callback.
C10_StopIdempotent ==
    [][op' = "stop" =>
          /\ op = "stop" => UNCHANGED engineVars
          /\ ~isPlaying => (UNCHANGED sessionVars /\ cb' = NoCb)]_vars

C10_Witness ==
    stops = 2 /\ session > 0 /\ cbCount = 1

\* C11: an updateAudioSettings call that directly follows a call with the same
\* five arguments leaves the target gains of the instrument bus and of the
\* metronome bus as the first call set them, whether the engine is running
\* or not.
C11_UpdateIdempotent ==
    [][(op' = "update" /\ applied'.again) =>
          (banjoMasterGain' = banjoMasterGain /\ metroMasterGain' = metroMasterGain)]_vars

C11_Witness ==
    /\ op = "update" /\ applied.again /\ ~applied.a.mEnabled
    /\ isPlaying /\ metroMasterGain = 0 /\ banjoMasterGain = EngineBanjoVol(applied.a.bVol)

C11_WitnessIdle ==
    op = "update" /\ applied.again /\ ~isPlaying /\ banjoMasterGain # NoNode

\* C12: within a session the times handed to scheduleNote strictly increase in
\* the order of the calls, and each is the time of the call before it plus one
\* sixteenth note at the tempo in effect when it was computed, also from
\* position 15 of a measure to position 0 of the next.
C12_TimesStepBySixteenth ==
    [][(op' = "sched" /\ out' # <<>>) =>
          /\ \A i \in 1 .. Len(out') - 1 :
                /\ out'[i + 1].time > out'[i].time
                /\ out'[i + 1].time = out'[i].time + SixteenthMs(currentBpm)
          /\ lastTime # None =>
                /\ out'[1].time > lastTime
                /\ out'[1].time = lastTime + SixteenthMs(tempoAtLast)
          /\ lastTime = None => out'[1].time = firstTime]_vars

C12_Witness ==
    /\ op = "sched" /\ afterStop = "no" /\ Len(out) > 0
    /\ out[1].m = 1 /\ out[1].pos = 0
    /\ out[1].time = firstTime + POSITIONS * SixteenthMs(currentBpm)

\* C14: a write to the tempo of the running session changes neither the next
\* event time already computed nor anything already handed to scheduleNote and
\* hands nothing to it; the pass after it starts at the time computed before
\* the write and every step from there adds one sixteenth note at the new tempo.
C14_TempoChangeNotRetroactive ==
    [][/\ op' = "tempo" =>
            /\ out' = <<>>
            /\ UNCHANGED <<nextNoteTime, currentMeasure, currentPos, timers, lastTime,
                           passed>>
       /\ (op' = "sched" /\ out' # <<>>) =>
            /\ out'[1].time = nextNoteTime
            /\ \A i \in 1 .. Len(out') - 1 :
                  out'[i + 1].time = out'[i].time + SixteenthMs(currentBpm)
            /\ nextNoteTime' = out'[Len(out')].time + SixteenthMs(currentBpm)]_vars

C14_Witness ==
    /\ op = "sched" /\ afterStop = "no" /\ Len(out) > 0
    /\ out[1].m = 1 /\ out[1].pos = 0
    /\ tempoAtLast # 0 /\ tempoAtLast = currentBpm
    /\ out[1].time # firstTime + POSITIONS * SixteenthMs(currentBpm)
    /\ nextNoteTime = out[Len(out)].time + SixteenthMs(currentBpm)

\* the cells of a timeline that sound: 'h2' and tokens that start with a digit
Sounding(cell) == cell = <<"h", "2">> \/ (cell # <<>> /\ cell[1] \in DOMAIN Digits)
SoundingCells(measures) ==
    { <<m, str, pos>> \in (1 .. Len(measures)) \X (0 .. STRINGS - 1) \X (0 .. POSITIONS - 1) :
          Sounding(Grid(measures[m], str, pos)) }

\* C13: every scheduleNote call of a session makes no pluckString call for a
\* silent cell of its column and exactly one for a cell holding a digit d or
\* 'h2', at the first event time plus (16 m + p) sixteenth notes and with the
\* frequency of MIDI note OPEN_MIDI[s] + d (2 for 'h2'); once the scheduler has
\* reached the end of the timeline of a session that was not stopped, every
\* column was handed to scheduleNote exactly once and the number of pluckString
\* calls is the number of sounding cells: one for the timeline with a single
\* "0" on string 0, position 0.
C13_EveryCellPluckedOnce ==
    /\ afterStop = "no" =>
          \A ev \in Events : ev.m < Len(currentMeasures) =>
            /\ ev.time = firstTime + (POSITIONS * ev.m + ev.pos) * SixteenthMs(currentBpm)
            /\ \A str \in 0 .. STRINGS - 1 :
                  LET cell == Grid(currentMeasures[ev.m + 1], str, ev.pos)
                      calls == { p \in ev.plucks : p.str = str }
                      fret == IF cell = <<"h", "2">> THEN 2 ELSE Digits[cell[1]]
                  IN  /\ cell = Silent => calls = {}
                      /\ (cell = <<"h", "2">> \/ (Len(cell) = 1 /\ cell[1] \in DOMAIN Digits)) =>
                            /\ Cardinality(calls) = 1
                            /\ \A p \in calls :
                                  /\ p.when = ev.time
                                  /\ p.freq = MidiToFreq(OPEN_MIDI[str + 1] + fret)
    /\ (session > 0 /\ afterStop = "no" /\ currentMeasure >= Len(currentMeasures)) =>
          /\ passed = 0 .. Len(currentMeasures) * POSITIONS - 1
          /\ ~dupPass
          /\ plucked = Cardinality(SoundingCells(currentMeasures))
          /\ currentMeasures = <<"one">> => plucked = 1

C13_Witness ==
    /\ op = "drain" /\ afterStop = "no" /\ cb.s = session /\ cb.by = session
    /\ currentMeasures = <<"bum", "end">> /\ plucked = 11

C13_WitnessOne ==
    /\ op = "sched" /\ afterStop = "no" /\ currentMeasures = <<"one">>
    /\ \E ev \in Events : ev.m = 0 /\ ev.pos = 0 /\ Cardinality(ev.plucks) = 1

\* C15: every sound a session schedules goes onto an audio context created by
\* that session's playSong call, never onto one an earlier session used, and
\* while the engine is not running no audio context of a finished session is
\* left open.
C15_GraphFreshAndTornDown ==
    /\ \A ev \in Events : (ev.click.on \/ ev.plucks # {}) => ctxBorn = session
    /\ (session > 0 /\ ~isPlaying) => audioCtx = 0

\* C16: the callback given to playSong is invoked when the natural-end timeout
\* ends the running session and also when stopSong ends it.
C16_OnStopAlsoWhenStopped ==
    [][/\ (op' = "drain" /\ isPlaying /\ masterOnStop # 0) => cb'.s = masterOnStop
       /\ (op' = "stop" /\ isPlaying /\ masterOnStop # 0) => cb'.s = masterOnStop]_vars

\* C17: on every string the frequency rises strictly with the fret, one fret
\* up multiplies it by 2^(1/12) = 1.0595 (to within 0.0005), twelve frets up
\* double it (to within a hundredth of a hertz per octave step), and MIDI note
\* 69 is 440 Hz.
C17_SemitonePerFret ==
    /\ [][fretNumber' = fretNumber + 1 =>
            /\ frequency' > frequency
            /\ 1059 * frequency <= 1000 * frequency'
            /\ 1000 * frequency' <= 1060 * frequency]_vars
    /\ [](/\ fretNumber >= 12 =>
                (LET low == PitchToFrequency(stringIndex, fretNumber - 12)
                 IN  frequency >= 2 * low /\ frequency <= 2 * low + 4)
          /\ OPEN_MIDI[stringIndex + 1] + fretNumber = 69 => frequency = 44000)

C17_Witness ==
    stringIndex = 3 /\ fretNumber = 7 /\ frequency = 44000

\* the cells that are neither '-' nor 'h2' nor start with a digit
Malformed(cell) == cell # Silent /\ ~Sounding(cell)
MalformedColumns(measures) ==
    { (m - 1) * POSITIONS + pos : m \in 1 .. Len(measures), pos \in 0 .. POSITIONS - 1 }
      \cap { (c[1] - 1) * POSITIONS + c[3] :
                c \in { d \in (1 .. Len(measures)) \X (0 .. STRINGS - 1) \X (0 .. POSITIONS - 1) :
                           Malformed(Grid(measures[d[1]], d[2], d[3])) } }

C18_WitnessEnd ==
    /\ afterStop = "no" /\ currentMeasures = <<"bum", "end">> /\ currentMeasure = 2
    /\ MalformedColumns(currentMeasures) = {8} /\ plucked = 11

\* C20: whenever a column plucks the drone string (index 4) and a melody
\* string (0 .. 3), the drone's peak gain is the lower one and its decay
\* coefficient is the one closer to 1.0 (the longer sustain).
C20_DroneQuieterAndLonger ==
    \A ev \in Events : \A drone \in ev.plucks, melody \in ev.plucks :
        (drone.str = 4 /\ melody.str \in 0 .. 3) =>
            /\ drone.gain < melody.gain
            /\ 1000 - drone.decay < 1000 - melody.decay

\* C19: stopSong never ends with an error, also when some or all of the
\* session's sounds have finished by themselves and halting them fails: the
\* failure is ignored, every sound that has not finished is halted, the end
\* timeout is cancelled and the engine is idle.
C19_StopNeverThrows ==
    /\ ~threw
    /\ op = "stop" =>
          /\ ~isPlaying
          /\ activeSrcs = <<>>
          /\ timers = <<>>
          /\ \A i \in DOMAIN srcNodes :
                srcNodes[i].stopped \/ Finished(srcNodes[i], ctxTime)

C19_Witness ==
    /\ op = "stop" /\ caught
    /\ \E i \in DOMAIN srcNodes : ~srcNodes[i].stopped /\ Finished(srcNodes[i], ctxTime)
    /\ \E i \in DOMAIN srcNodes : srcNodes[i].stopped /\ ~Finished(srcNodes[i], ctxTime)
    /\ \E i, j \in DOMAIN srcNodes : i < j /\ ~srcNodes[i].stopped /\ srcNodes[j].stopped

\* C21: a scheduler pass (a wake-up, or the pass playSong makes) hands an
\* event to scheduleNote only if its time is strictly less than the audio
\* clock plus the 100 ms window; when the pass ends before the end of the
\* timeline, the next event time is at or beyond clock + window and the pass
\* has armed exactly one wake-up, 25 ms ahead, which is the one timerID names.
C21_LookAheadWindow ==
    [][op' \in {"sched", "play"} =>
          /\ \A i \in DOMAIN out' : out'[i].time < ctxTime' + SCHEDULE_AHEAD_TIME
          /\ currentMeasure' < Len(currentMeasures') =>
                /\ nextNoteTime' >= ctxTime' + SCHEDULE_AHEAD_TIME
                /\ Len(timers') = 1 + (IF op' = "sched" THEN Len(timers) - 1
                                       ELSE IF isPlaying THEN Len(ClearTimer(timers))
                                       ELSE Len(timers))
                /\ timers'[Len(timers')] = [kind |-> "sched", rem |-> LOOKAHEAD,
                                            cur |-> TRUE, owner |-> timers'[Len(timers')].owner]
                /\ \A i \in 1 .. Len(timers') - 1 : ~timers'[i].cur]_vars

C21_Witness ==
    /\ op = "sched" /\ afterStop = "no" /\ Len(out) = 1
    /\ out[1].time = ctxTime + SCHEDULE_AHEAD_TIME - LOOKAHEAD
    /\ currentMeasure < Len(currentMeasures)
    /\ nextNoteTime = ctxTime + SCHEDULE_AHEAD_TIME

\* the current session has come to rest: no wake-up and no natural-end
\* timeout is pending, the engine is Idle and the callback ran once
Rested ==
    /\ ~isPlaying
    /\ cbCount = 1
    /\ \A i \in DOMAIN timers : timers[i].kind # "sched"
    /\ PendingOf(session) = {}

C22_Eventually ==
    /\ \A k \in 1 .. MaxLivePlays :
          (session = k /\ op = "play" /\ currentMeasures # <<>>)
             ~> (session > k \/ afterStop # "no" \/ Rested)
    /\ [](cbCount <= 1)

\* the order of a natural end: the callback of a session that was not stopped
\* runs when no wake-up is pending any more and its own natural-end timeout
\* has fired
C22_InOrder ==
    [](cb.s # 0 /\ afterStop = "no" /\ currentMeasures # <<>> =>
          /\ \A i \in DOMAIN timers : timers[i].kind # "sched"
          /\ cb.by = session)

\* C22: with timeouts that fire and a clock that advances, every session
\* started on a non-empty timeline and neither stopped nor superseded
\* stops scheduling, then waits the drain delay, then becomes Idle with its
\* callback invoked, exactly once.
C22_NaturalEndLiveness == C22_Eventually /\ C22_InOrder

C22_Reached ==
    /\ op = "drain" /\ cb.s = 2 /\ cb.by = 1 /\ afterStop = "no"
    /\ currentMeasures # <<>>
    /\ \E i \in DOMAIN timers : timers[i].kind = "sched"

\* the pending scheduler wake-ups
SchedulerTimers == { i \in DOMAIN timers : timers[i].kind = "sched" }

\* C23: at most one scheduler wake-up is pending in any reachable state, and
\* a pending one is the timeout timerID names, so that the clearTimeout of one
\* stopSong leaves no wake-up behind.
C23_OneSchedulerChain ==
    /\ Cardinality(SchedulerTimers) <= 1
    /\ \A i \in SchedulerTimers : timers[i].cur

\* C24: while isPlaying is false no scheduler wake-up is pending and no
\* position is handed to the synthesizers, so a caller that calls stopSong only
\* when isPlaying is true leaves no scheduling loop behind.
C24_IdleMeansNoLoop ==
    ~isPlaying => (SchedulerTimers = {} /\ out = <<>>)

\* C25: a call of updateAudioSettings leaves the running flag, the position
\* pointer, the next event time, the tempo, the pending timers and the
\* callback as they were and hands nothing to the synthesizers; made while
\* Idle without an audio graph it changes no variable of the engine and creates
\* no audio context.
C25_UpdateChangesOnlyGains ==
    [][op' = "update" =>
          /\ UNCHANGED <<isPlaying, currentMeasure, currentPos, nextNoteTime, currentBpm,
                         timers, masterOnStop>>
          /\ out' = <<>>
          /\ audioCtx = 0 => UNCHANGED engineVars]_vars

C25_Witness ==
    /\ op = "update" /\ applied.a.set
    /\ ~isPlaying /\ audioCtx = 0 /\ session >= 1 /\ timers # <<>>

C25_WitnessRunning ==
    /\ op = "update" /\ applied.a.set
    /\ isPlaying /\ audioCtx # 0 /\ banjoMasterGain = EngineBanjoVol(applied.a.bVol)
    /\ currentPos = 8 /\ timers # <<>>

\* C26: the position pointer stays inside the timeline: currentPos is one of
\* the 16 positions, currentMeasure is at most the number of measures, and every
\* position handed to scheduleNote, with its tick and its string sounds, lies
\* in a measure of the timeline.
C26_PointerInRange ==
    /\ currentPos \in 0 .. POSITIONS - 1
    /\ currentMeasure \in 0 .. Len(currentMeasures)
    /\ \A ev \in Events :
          /\ ev.m \in 0 .. Len(currentMeasures) - 1
          /\ ev.pos \in 0 .. POSITIONS - 1

C26_Witness ==
    /\ op = "sched"
    /\ Len(currentMeasures) = 2 /\ currentMeasure = 2 /\ currentPos = 0
    /\ \E ev \in Events : ev.m = 1 /\ ev.pos = POSITIONS - 1

\* the same end reached by a wake-up chain that outlived the session it was
\* armed for and runs on the timeline of a later one
C26_WitnessOrphan ==
    /\ op = "sched"
    /\ currentMeasure = Len(currentMeasures) /\ currentMeasures # <<>>
    /\ \E i \in DOMAIN timers : timers[i].kind = "sched" /\ timers[i].owner < session
    /\ \E ev \in Events : ev.m = Len(currentMeasures) - 1 /\ ev.pos = POSITIONS - 1

====
